---- MODULE Spec2Model ----
(***************************************************************************)
(* A model of src/index.js: the Logger class wrapping a cloud logging      *)
(* client.  JavaScript objects are functions from property names to        *)
(* values; the one object this module mutates and shares (the Logger's     *)
(* globalLabels map) lives in a heap and is held by reference.             *)
(***************************************************************************)
EXTENDS Integers, Sequences, FiniteSets, TLC

VARIABLES
    ctorOptions,  \* the options object the constructor was called with
    logger,       \* the fields of the Logger instance (this.*)
    heap,         \* heap[r]: the label map stored in the object with reference r
    nCalls,       \* number of log invocations made so far
    call,         \* what the most recent log invocation did and returned
    nEntries,     \* backend: number of entry(metadata, data) requests served
    promises,     \* backend: promises[p] is the state of the p-th write's promise
    pending       \* backend: the writes in flight, each holding its arguments

vars == <<ctorOptions, logger, heap, nCalls, call, nEntries, promises, pending>>

(***************************************************************************)
(* Bounds of the model.                                                    *)
(***************************************************************************)
MaxCalls == 2

(***************************************************************************)
(* JavaScript values.                                                      *)
(***************************************************************************)
Undefined == [undefined |-> TRUE]

EmptyObject == [k \in {} |-> Undefined]

Truthy(v) == v # Undefined

Get(obj, k) == IF k \in DOMAIN obj THEN obj[k] ELSE Undefined

SetProp(obj, k, v) == [x \in DOMAIN obj \cup {k} |-> IF x = k THEN v ELSE obj[x]]

\* Object.assign(target, source) with the source's properties winning.
ObjectAssign(target, source) ==
    [k \in DOMAIN target \cup DOMAIN source |->
        IF k \in DOMAIN source THEN source[k] ELSE target[k]]

Ref(r) == [ref |-> r]

Deref(h, v) == h[v.ref]

(***************************************************************************)
(* The exported severity enumeration.                                      *)
(***************************************************************************)
severity ==
    [DEFAULT |-> "DEFAULT", DEBUG |-> "DEBUG", INFO |-> "INFO",
     NOTICE |-> "NOTICE", WARNING |-> "WARNING", ERROR |-> "ERROR",
     CRITICAL |-> "CRITICAL", ALERT |-> "ALERT", EMERGENCY |-> "EMERGENCY"]

(***************************************************************************)
(* The inputs the callers draw from.                                       *)
(***************************************************************************)
Messages == {"boom"}

Severities == {severity[k] : k \in DOMAIN severity}

CtorInputs ==
    { EmptyObject,
      [name |-> "MyLogName", resourceType |-> "cloud_function",
       resourceLabels |-> [function_name |-> "myCloudFunction"],
       globalLabels |-> [env |-> "prod"]],
      [projectId |-> "my-project", resourceLabels |-> [zone |-> "a"],
       globalLabels |-> [env |-> "prod"], echo |-> TRUE] }

OtherResource == [type |-> "gce_instance", labels |-> [env |-> "staging"]]

OptionsInputs ==
    { Undefined,
      [resource |-> OtherResource],
      [labels |-> [env |-> "staging", req |-> "42"]],
      [labels |-> [req |-> "7"], resource |-> OtherResource] }

Errors == {"UNAUTHENTICATED"}

(***************************************************************************)
(* The constructor.                                                        *)
(***************************************************************************)
defaultOptions ==
    [projectId |-> "default", name |-> "default", resourceType |-> "global",
     resourceLabels |-> EmptyObject, globalLabels |-> EmptyObject,
     echo |-> FALSE]

\* The Logger's fields and the heap after new Logger(options).
Constructor(options) ==
    LET opts == ObjectAssign(defaultOptions, options)
        loggingApi == IF opts.projectId = "default"
                      THEN EmptyObject
                      ELSE [projectId |-> opts.projectId]
    IN  [logger |-> [name |-> opts.name,
                     resourceType |-> opts.resourceType,
                     resourceLabels |-> opts.resourceLabels,
                     globalLabels |-> Ref(1),
                     echo |-> opts.echo,
                     _logger |-> [api |-> loggingApi, log |-> opts.name]],
         heap |-> <<opts.globalLabels>>]

NoCall == [none |-> TRUE]

Init ==
    \E options \in CtorInputs :
        /\ ctorOptions = options
        /\ logger = Constructor(options).logger
        /\ heap = Constructor(options).heap
        /\ nCalls = 0
        /\ call = NoCall
        /\ nEntries = 0
        /\ promises = <<>>
        /\ pending = <<>>

(***************************************************************************)
(* makeEntry and log.  An invocation is a sequence of statements; each     *)
(* statement maps an execution context to the next one.  The context holds *)
(* the heap, the backend's state and the trace of external requests.       *)
(***************************************************************************)
Context ==
    [heap |-> heap, nEntries |-> nEntries, promises |-> promises,
     pending |-> pending, order |-> <<>>, stdout |-> <<>>,
     entries |-> <<>>, writes |-> <<>>]

\* An echo that prints the message without its severity.
ConsoleLog_MessageOnly(c, sev, message) ==
    [c EXCEPT !.order = Append(@, "console.log"),
              !.stdout = Append(@, <<message>>)]

\* console.log(sev, message)
ConsoleLog(c, sev, message) ==
    [c EXCEPT !.order = Append(@, "console.log"),
              !.stdout = Append(@, <<sev, message>>)]

\* this._logger.entry(metadata, message): the entry and the context after it.
BackendEntry(c, metadata, message) ==
    [value |-> [metadata |-> metadata, data |-> message],
     ctx |-> [c EXCEPT !.order = Append(@, "entry"),
                       !.nEntries = @ + 1,
                       !.entries = Append(@, [metadata |-> metadata,
                                              data |-> message])]]

\* this._logger.write(entry, options): the promise and the context after it.
BackendWrite(c, entry, options) ==
    LET p == Len(c.promises) + 1
    IN  [value |-> [promise |-> p],
         ctx |-> [c EXCEPT !.order = Append(@, "write"),
                           !.promises = Append(@, [state |-> "pending"]),
                           !.pending = Append(@, [promise |-> p,
                                                  entry |-> entry,
                                                  options |-> options]),
                           !.writes = Append(@, [entry |-> entry,
                                                 options |-> options,
                                                 result |-> [promise |-> p]])]]

\* An entry whose resource labels are the Logger's global labels.
makeEntry_GlobalLabels(c, message, sev) ==
    LET metadata == [resource |-> [type |-> logger.resourceType,
                                   labels |-> Deref(c.heap, logger.globalLabels)],
                     severity |-> sev]
    IN  BackendEntry(c, metadata, message)

makeEntry(c, message, sev) ==
    LET metadata == [resource |-> [type |-> logger.resourceType,
                                   labels |-> logger.resourceLabels],
                     severity |-> sev]
    IN  BackendEntry(c, metadata, message)

\* Lines 99-107: a missing options object and a missing labels property
\* are each replaced by a fresh empty object.
NormalizeOptions(options) ==
    LET o1 == IF ~Truthy(options) THEN EmptyObject ELSE options
    IN  IF ~Truthy(Get(o1, "labels"))
        THEN SetProp(o1, "labels", EmptyObject)
        ELSE o1

\* A merge with the arguments swapped: the global labels are assigned into
\* the call's label object, so the defaults win.
MergeLabels_ArgsSwapped(c, options) ==
    IF Truthy(options) /\ Truthy(Get(options, "labels"))
    THEN LET target == Ref(Len(c.heap) + 1)
             globals == Deref(c.heap, logger.globalLabels)
         IN  [options |-> SetProp(options, "labels", target),
              ctx |-> [c EXCEPT !.heap =
                           Append(@, ObjectAssign(options.labels, globals))]]
    ELSE [options |-> options, ctx |-> c]

\* A merge into a fresh copy, leaving this.globalLabels as it was.
MergeLabels_FreshCopy(c, options) ==
    IF Truthy(options) /\ Truthy(Get(options, "labels"))
    THEN LET target == Ref(Len(c.heap) + 1)
             copy == Deref(c.heap, logger.globalLabels)
         IN  [options |-> SetProp(options, "labels", target),
              ctx |-> [c EXCEPT !.heap =
                           Append(@, ObjectAssign(copy, options.labels))]]
    ELSE [options |-> options, ctx |-> c]

\* Lines 109-113: the merge into this.globalLabels; options.labels becomes
\* the reference Object.assign returns, which is its target.
MergeLabels(c, options) ==
    IF Truthy(options) /\ Truthy(Get(options, "labels"))
    THEN LET target == logger.globalLabels
         IN  [options |-> SetProp(options, "labels", target),
              ctx |-> [c EXCEPT !.heap[target.ref] =
                                    ObjectAssign(@, options.labels)]]
    ELSE [options |-> options, ctx |-> c]

\* Lines 114-116.
Echo(c, sev, message) ==
    IF logger.echo THEN ConsoleLog(c, sev, message) ELSE c

\* A dispatch that writes the entry a second time.
Dispatch_WriteTwice(c, message, sev, options) ==
    LET entry == makeEntry(c, message, sev)
        first == BackendWrite(entry.ctx, entry.value, options)
    IN  BackendWrite(first.ctx, entry.value, options)

\* A dispatch that discards what write returns.
Dispatch_Discard(c, message, sev, options) ==
    LET entry == makeEntry(c, message, sev)
    IN  [value |-> Undefined,
         ctx |-> BackendWrite(entry.ctx, entry.value, options).ctx]

\* Lines 117-118: build the entry, write it, return what write returns.
Dispatch(c, message, sev, options) ==
    LET entry == makeEntry(c, message, sev)
    IN  BackendWrite(entry.ctx, entry.value, options)

\* The value log(message, sev, options) returns and the context it leaves.
LogBody(message, sev, options) ==
    LET merged == MergeLabels(Context, NormalizeOptions(options))
        echoed == Echo(merged.ctx, sev, message)
    IN  Dispatch(echoed, message, sev, merged.options)

log(message, sev, options) ==
    LET r == LogBody(message, sev, options)
    IN  /\ heap' = r.ctx.heap
        /\ nEntries' = r.ctx.nEntries
        /\ promises' = r.ctx.promises
        /\ pending' = r.ctx.pending
        /\ nCalls' = nCalls + 1
        /\ call' = [message |-> message, severity |-> sev,
                    options |-> options, order |-> r.ctx.order,
                    stdout |-> r.ctx.stdout, entries |-> r.ctx.entries,
                    writes |-> r.ctx.writes, returned |-> r.value]
        /\ UNCHANGED <<ctorOptions, logger>>

alert(message, options) == log(message, severity.ALERT, options)

critical(message, options) == log(message, severity.CRITICAL, options)

debug(message, options) == log(message, severity.DEBUG, options)

emergency(message, options) == log(message, severity.EMERGENCY, options)

\* An error method that logs at WARNING.
error_AsWarning(message, options) == log(message, severity.WARNING, options)

error(message, options) == log(message, severity.ERROR, options)

info(message, options) == log(message, severity.INFO, options)

notice(message, options) == log(message, severity.NOTICE, options)

warning(message, options) == log(message, severity.WARNING, options)

(***************************************************************************)
(* The backend settles a write in flight, in any order.                    *)
(***************************************************************************)
Remove(s, i) == SubSeq(s, 1, i - 1) \o SubSeq(s, i + 1, Len(s))

Settle(i, outcome) ==
    /\ i \in 1..Len(pending)
    /\ promises' = [promises EXCEPT ![pending[i].promise] = outcome]
    /\ pending' = Remove(pending, i)
    /\ UNCHANGED <<ctorOptions, logger, heap, nCalls, call, nEntries>>

Resolve == \E i \in 1..Len(pending) : Settle(i, [state |-> "fulfilled"])

Reject ==
    \E i \in 1..Len(pending), e \in Errors :
        Settle(i, [state |-> "rejected", reason |-> e])

Next ==
    \/ /\ nCalls < MaxCalls
       /\ \E message \in Messages, options \in OptionsInputs :
            \/ \E sev \in Severities : log(message, sev, options)
            \/ alert(message, options)
            \/ critical(message, options)
            \/ debug(message, options)
            \/ emergency(message, options)
            \/ error(message, options)
            \/ info(message, options)
            \/ notice(message, options)
            \/ warning(message, options)
    \/ Resolve
    \/ Reject

Spec == Init /\ [][Next]_vars

(***************************************************************************)
(* What the claims speak of.                                               *)
(***************************************************************************)
\* The configuration the constructor was given, with the documented
\* defaults for what was left out.
ConfiguredGlobalLabels ==
    IF "globalLabels" \in DOMAIN ctorOptions
    THEN ctorOptions.globalLabels
    ELSE EmptyObject

ConfiguredResource ==
    [type |-> IF "resourceType" \in DOMAIN ctorOptions
              THEN ctorOptions.resourceType
              ELSE "global",
     labels |-> IF "resourceLabels" \in DOMAIN ctorOptions
                THEN ctorOptions.resourceLabels
                ELSE EmptyObject]

ConfiguredEcho == "echo" \in DOMAIN ctorOptions /\ ctorOptions.echo

\* The labels a call passes: options.labels, or none.
GivenLabels(options) ==
    IF options # Undefined /\ "labels" \in DOMAIN options
    THEN options.labels
    ELSE EmptyObject

\* g with every key of o overwritten by o's value.
Overwritten(g, o) ==
    [k \in DOMAIN g \cup DOMAIN o |-> IF k \in DOMAIN o THEN o[k] ELSE g[k]]

\* The label map the Logger's globalLabels field denotes.
GlobalLabels == Deref(heap, logger.globalLabels)

\* The label map the most recent call's backend write received.
WrittenLabels == Deref(heap, call.writes[1].options.labels)

\* The severity-named methods of the class, and the call logger[x](m, o).
MethodNames ==
    {"alert", "critical", "debug", "emergency", "error", "info", "notice",
     "warning"}

Invoke(x, message, options) ==
    CASE x = "alert" -> alert(message, options)
      [] x = "critical" -> critical(message, options)
      [] x = "debug" -> debug(message, options)
      [] x = "emergency" -> emergency(message, options)
      [] x = "error" -> error(message, options)
      [] x = "info" -> info(message, options)
      [] x = "notice" -> notice(message, options)
      [] x = "warning" -> warning(message, options)
      [] OTHER -> FALSE

\* The method name that spells a severity key.
LowerCase ==
    [DEFAULT |-> "default", DEBUG |-> "debug", INFO |-> "info",
     NOTICE |-> "notice", WARNING |-> "warning", ERROR |-> "error",
     CRITICAL |-> "critical", ALERT |-> "alert", EMERGENCY |-> "emergency"]

(***************************************************************************)
(* C1: the label map every backend write receives is the constructor's     *)
(* global labels overwritten by the call's labels, with exactly the keys   *)
(* of the two, also after earlier calls on the same Logger.                *)
(***************************************************************************)
C1_WriteGetsConfiguredMerge ==
    nCalls > 0 =>
        WrittenLabels =
            Overwritten(ConfiguredGlobalLabels, GivenLabels(call.options))

(***************************************************************************)
(* C2: a call with options omitted hands the backend write exactly the     *)
(* global labels given to the constructor, whatever calls came before.     *)
(***************************************************************************)
C2_OmittedOptionsGetConfigured ==
    (nCalls > 0 /\ call.options = Undefined) =>
        WrittenLabels = ConfiguredGlobalLabels

(***************************************************************************)
(* C3: for each of the nine severities some severity-named method takes    *)
(* exactly the steps log takes with that severity: same entry, same write  *)
(* options, same resulting state, same returned value.  Checked on every   *)
(* invocation, for the message and options it was made with.               *)
(***************************************************************************)
C3_NineSeverities ==
    [][nCalls' # nCalls =>
         \A k \in DOMAIN severity :
            \E x \in MethodNames :
                Invoke(x, call'.message, call'.options)
                    <=> log(call'.message, severity[k], call'.options)]_vars

(***************************************************************************)
(* C3 as amended: for each of the eight severities other than DEFAULT the  *)
(* method named after it takes exactly the steps log takes with that       *)
(* severity.                                                               *)
(***************************************************************************)
C3_EightSeverities ==
    [][nCalls' # nCalls =>
         \A k \in DOMAIN severity \ {"DEFAULT"} :
            /\ LowerCase[k] \in MethodNames
            /\ Invoke(LowerCase[k], call'.message, call'.options)
                 <=> log(call'.message, severity[k], call'.options)]_vars

C3_Witness ==
    /\ nCalls > 0
    /\ call.severity \in {severity[k] : k \in DOMAIN severity \ {"DEFAULT"}}
    /\ call.options # Undefined

(***************************************************************************)
(* C4: the resource of every entry built is the constructor-configured     *)
(* resource type and resource labels, whatever the call's options carry.   *)
(***************************************************************************)
C4_ResourceIsConfigured ==
    /\ nCalls > 0 =>
         \A i \in 1..Len(call.entries) :
            call.entries[i].metadata.resource = ConfiguredResource
    /\ \A i \in 1..Len(pending) :
         pending[i].entry.metadata.resource = ConfiguredResource

C4_Witness ==
    /\ nCalls > 1
    /\ call.options # Undefined
    /\ DOMAIN call.options = {"labels", "resource"}
    /\ Len(call.entries) = 1

(***************************************************************************)
(* C5: with echo enabled a call prints exactly one line, carrying its      *)
(* severity and message, before the entry is built and the write issued;   *)
(* with echo disabled it prints nothing.                                   *)
(***************************************************************************)
C5_EchoOnceBeforeWrite ==
    nCalls > 0 =>
        IF ConfiguredEcho
        THEN /\ call.stdout = << <<call.severity, call.message>> >>
             /\ call.order = <<"console.log", "entry", "write">>
        ELSE /\ call.stdout = <<>>
             /\ call.order = <<"entry", "write">>

C5_Witness ==
    /\ nCalls > 0
    /\ ConfiguredEcho
    /\ Len(call.stdout) = 1
    /\ call.severity = "NOTICE"

(***************************************************************************)
(* C6: every invocation builds one entry and then issues one write of it;  *)
(* the backend has received as many writes as there were invocations, also *)
(* after writes failed.                                                    *)
(***************************************************************************)
C6_OneEntryOneWrite ==
    /\ nEntries = nCalls
    /\ Len(promises) = nCalls
    /\ Len(pending) =
         Cardinality({p \in 1..Len(promises) : promises[p].state = "pending"})
    /\ nCalls > 0 =>
         /\ SelectSeq(call.order, LAMBDA op : op # "console.log")
              = <<"entry", "write">>
         /\ Len(call.entries) = 1
         /\ Len(call.writes) = 1
         /\ call.writes[1].entry = call.entries[1]

C6_Witness ==
    /\ nCalls > 1
    /\ \E p \in 1..Len(promises) : promises[p].state = "rejected"
    /\ Len(pending) > 0

(***************************************************************************)
(* C7: what a call returns is the promise the backend write returned for   *)
(* that call, so the caller sees that write pending, fulfilled or rejected *)
(* with the backend's reason.                                              *)
(***************************************************************************)
C7_ReturnsWritePromise ==
    nCalls > 0 =>
        /\ Len(call.writes) > 0
        /\ call.returned = call.writes[Len(call.writes)].result
        /\ call.returned.promise = Len(promises)
        /\ promises[call.returned.promise].state = "pending"
             <=> \E i \in 1..Len(pending) :
                    pending[i].promise = call.returned.promise

C7_Witness ==
    /\ nCalls > 0
    /\ call.returned # Undefined
    /\ promises[call.returned.promise] =
         [state |-> "rejected", reason |-> "UNAUTHENTICATED"]

(***************************************************************************)
(* C8: on a fresh Logger with global labels {env: prod}, the first call    *)
(* error("boom", {labels: {env: staging, req: 42}}) writes with the label  *)
(* map {env: staging, req: 42} an entry of severity ERROR and message boom.*)
(***************************************************************************)
C8_Example ==
    [][(/\ nCalls = 0
        /\ ConfiguredGlobalLabels = [env |-> "prod"]
        /\ error("boom", [labels |-> [env |-> "staging", req |-> "42"]]))
       => /\ Len(call'.writes) = 1
          /\ Deref(heap', call'.writes[1].options.labels)
               = [env |-> "staging", req |-> "42"]
          /\ call'.writes[1].entry.metadata.severity = "ERROR"
          /\ call'.writes[1].entry.data = "boom"]_vars

C8_Witness ==
    /\ nCalls = 1
    /\ ConfiguredGlobalLabels = [env |-> "prod"]
    /\ call.severity = "ERROR"
    /\ call.message = "boom"
    /\ call.options = [labels |-> [env |-> "staging", req |-> "42"]]

(***************************************************************************)
(* C9: a call leaves name, resourceType, resourceLabels and echo as they   *)
(* were and leaves globalLabels equal to its value before the call         *)
(* overwritten by the call's labels; nothing else changes globalLabels,    *)
(* so its key set never shrinks.                                           *)
(***************************************************************************)
C9_OnlyGlobalLabelsChange ==
    [][/\ logger'.name = logger.name
       /\ logger'.resourceType = logger.resourceType
       /\ logger'.resourceLabels = logger.resourceLabels
       /\ logger'.echo = logger.echo
       /\ logger'.globalLabels = logger.globalLabels
       /\ IF nCalls' # nCalls
          THEN GlobalLabels' = Overwritten(GlobalLabels,
                                           GivenLabels(call'.options))
          ELSE GlobalLabels' = GlobalLabels
       /\ DOMAIN GlobalLabels \subseteq DOMAIN GlobalLabels']_vars

C9_Witness ==
    /\ nCalls > 1
    /\ ConfiguredGlobalLabels = [env |-> "prod"]
    /\ GlobalLabels = [env |-> "staging", req |-> "7"]

(***************************************************************************)
(* C10: while a write is in flight, the label map it holds stays what it   *)
(* was when the write was issued, whatever other calls are made.           *)
(***************************************************************************)
C10_PendingLabelsStable ==
    [][\A i \in 1..Len(pending), j \in 1..Len(pending') :
         pending'[j].promise = pending[i].promise =>
            Deref(heap', pending'[j].options.labels)
                = Deref(heap, pending[i].options.labels)]_vars

====
